---------------------------- MODULE Spec2Model ----------------------------
(***************************************************************************)
(* Model of static/gifs/gifs.py: the signature detector detect_file_type,  *)
(* the name normalizer clean_filename, the conversion adapter              *)
(* convert_to_gif and the batch orchestrator process_folder.               *)
(*                                                                         *)
(* File contents are sequences of byte values, file names are sequences of *)
(* one-character strings, and the directory is a function from the names   *)
(* of its entries to the entries.                                          *)
(***************************************************************************)
EXTENDS Integers, Sequences, FiniteSets, TLC

(***************************************************************************)
(* Byte strings the detector compares against (gifs.py lines 12-61).       *)
(***************************************************************************)
B_GIF87a == <<71, 73, 70, 56, 55, 97>>
B_GIF89a == <<71, 73, 70, 56, 57, 97>>
B_DOCTYPE == <<60, 33, 68, 79, 67, 84, 89, 80, 69>>
B_html == <<60, 104, 116, 109, 108>>
B_ThisContent ==
    <<84, 104, 105, 115, 32, 99, 111, 110, 116, 101, 110, 116, 32, 105, 115,
      32, 110, 111, 32, 108, 111, 110, 103, 101, 114>>
B_import == <<105, 109, 112, 111, 114, 116, 32>>
B_shebang == <<35, 33, 47, 117, 115, 114, 47, 98, 105, 110>>
B_hash == <<35, 32>>
B_ftyp == <<102, 116, 121, 112>>
B_EBML == <<26, 69, 223, 163>>
B_RIFF == <<82, 73, 70, 70>>
B_AVI == <<65, 86, 73, 32>>
B_moov == <<109, 111, 111, 118>>
B_mdat == <<109, 100, 97, 116>>
B_qt == <<113, 116>>
B_PNGSIG == <<137, 80, 78, 71, 13, 10, 26, 10>>
B_JPEG == <<255, 216, 255>>
B_WEBP == <<87, 69, 66, 80>>
B_PNG4 == <<137, 80, 78, 71>>
B_acTL == <<97, 99, 84, 76>>

\* Sizes of the three reads of detect_file_type.
HeaderSize == 32
ChunkSize == 256
ContentSize == 1024

Min(a, b) == IF a < b THEN a ELSE b

\* bytes.startswith
StartsWith(s, p) == Len(s) >= Len(p) /\ SubSeq(s, 1, Len(p)) = p

\* the bytes operator "in": p occurs somewhere in s
Contains(s, p) ==
    \E k \in 1..(Len(s) - Len(p) + 1) : SubSeq(s, k, k + Len(p) - 1) = p

\* f.read(n) on a freshly opened file: the first n bytes, fewer if the file is shorter
Read(data, n) == SubSeq(data, 1, Min(n, Len(data)))

\* header[a:b], Python's half-open slice with 0-based bounds
Slice(s, a, b) == SubSeq(s, a + 1, Min(b, Len(s)))

(***************************************************************************)
(* The conditions of detect_file_type, one per if statement of the chain.  *)
(***************************************************************************)
IsGif(header) == StartsWith(header, B_GIF87a) \/ StartsWith(header, B_GIF89a)
IsHtml(header) == StartsWith(header, B_DOCTYPE) \/ StartsWith(header, B_html)
IsTextError(header) == StartsWith(header, B_ThisContent)
IsTextFile(header) ==
    \/ StartsWith(header, B_import)
    \/ StartsWith(header, B_shebang)
    \/ StartsWith(header, B_hash)
IsMp4(header) == Len(header) >= 8 /\ Slice(header, 4, 8) = B_ftyp
IsWebm(header) == StartsWith(header, B_EBML)
IsAvi(header) ==
    StartsWith(header, B_RIFF) /\ Len(header) >= 12 /\ Slice(header, 8, 12) = B_AVI
\* A QuickTime test that does not look for mdat.
IsMovNoMdat(chunk) ==
    \/ Contains(chunk, B_moov)
    \/ (Contains(chunk, B_ftyp) /\ Contains(chunk, B_qt))

IsMov(chunk) ==
    \/ Contains(chunk, B_moov)
    \/ Contains(chunk, B_mdat)
    \/ (Contains(chunk, B_ftyp) /\ Contains(chunk, B_qt))
IsPng(header) == StartsWith(header, B_PNGSIG)
IsJpeg(header) == StartsWith(header, B_JPEG)
IsWebp(header) ==
    StartsWith(header, B_RIFF) /\ Len(header) >= 12 /\ Slice(header, 8, 12) = B_WEBP
IsApng(header, content) == StartsWith(header, B_PNG4) /\ Contains(content, B_acTL)

\* The chain with the QuickTime test moved in front of the ftyp test.
detect_mov_first(data) ==
    LET header == Read(data, HeaderSize)
        chunk == Read(data, ChunkSize)
        content == Read(data, ContentSize)
    IN  IF IsGif(header) THEN "gif"
        ELSE IF IsHtml(header) THEN "html"
        ELSE IF IsTextError(header) THEN "text_error"
        ELSE IF IsTextFile(header) THEN "text_file"
        ELSE IF IsMov(chunk) THEN "mov"
        ELSE IF IsMp4(header) THEN "mp4"
        ELSE IF IsWebm(header) THEN "webm"
        ELSE IF IsAvi(header) THEN "avi"
        ELSE IF IsPng(header) THEN "png"
        ELSE IF IsJpeg(header) THEN "jpeg"
        ELSE IF IsWebp(header) THEN "webp"
        ELSE IF IsApng(header, content) THEN "apng"
        ELSE "unknown"

\* detect_file_type on a file that was opened and read: the if chain of lines 12-69
detect_bytes(data) ==
    LET header == Read(data, HeaderSize)
        chunk == Read(data, ChunkSize)
        content == Read(data, ContentSize)
    IN  IF IsGif(header) THEN "gif"
        ELSE IF IsHtml(header) THEN "html"
        ELSE IF IsTextError(header) THEN "text_error"
        ELSE IF IsTextFile(header) THEN "text_file"
        ELSE IF IsMp4(header) THEN "mp4"
        ELSE IF IsWebm(header) THEN "webm"
        ELSE IF IsAvi(header) THEN "avi"
        ELSE IF IsMov(chunk) THEN "mov"
        ELSE IF IsPng(header) THEN "png"
        ELSE IF IsJpeg(header) THEN "jpeg"
        ELSE IF IsWebp(header) THEN "webp"
        ELSE IF IsApng(header, content) THEN "apng"
        ELSE "unknown"

\* A detector that reports a file it could not read as unknown.
detect_unreadable_unknown(data, readable) ==
    IF readable THEN detect_bytes(data) ELSE "unknown"

\* detect_file_type: the chain, or None (here "None") when open or read raises
detect_file_type(data, readable) ==
    IF readable THEN detect_bytes(data) ELSE "None"


(***************************************************************************)
(* Files handed to the detector: a leading byte string, zero padding, and  *)
(* a marker placed at a chosen offset of the file.                         *)
(***************************************************************************)
Pad(n) == [k \in 1..n |-> 0]

Prefixes ==
    { <<>>, <<0>>, <<71, 73, 70, 56>>,
      B_GIF87a, B_GIF89a, B_DOCTYPE, B_html, B_ThisContent,
      B_import, B_shebang, B_hash,
      <<0, 0, 0, 24>> \o B_ftyp \o <<105, 115, 111, 109>>,
      <<0, 0, 0, 0, 102, 116, 121>>,
      B_hash \o <<0, 0>> \o B_ftyp,
      B_EBML,
      B_RIFF, B_RIFF \o Pad(4),
      B_RIFF \o Pad(4) \o B_AVI,
      B_RIFF \o B_ftyp \o B_AVI,
      B_RIFF \o Pad(4) \o B_WEBP,
      B_RIFF \o Pad(4) \o <<87, 65, 86, 69>>,
      B_PNGSIG, B_PNG4 \o <<0, 0>>,
      B_JPEG, B_JPEG \o <<224>> \o B_ftyp }

Markers == { <<>>, B_moov, B_mdat, B_ftyp, B_qt, B_ftyp \o B_qt, B_acTL }

\* 0-based offsets of the marker: right after the prefix (-1), in the header,
\* around the end of the 256-byte read and around the end of the 1024-byte read
MarkerOffsets ==
    { -1, HeaderSize, ChunkSize - 4, ChunkSize - 2, ChunkSize,
      ContentSize - 4, ContentSize - 2, ContentSize }

MkData(prefix, off, marker) ==
    IF off < Len(prefix) THEN prefix \o marker
    ELSE prefix \o Pad(off - Len(prefix)) \o marker

DetectInputs ==
    { MkData(p, o, m) : p \in Prefixes, o \in MarkerOffsets, m \in Markers }

(***************************************************************************)
(* File names and the name normalizer.                                     *)
(***************************************************************************)
DotGif == <<".", "g", "i", "f">>
TmpSuffix == <<".", "t", "m", "p", ".", "g", "i", "f">>
Digits == <<"0", "1", "2", "3", "4", "5", "6", "7", "8", "9">>

\* the decimal digits of counter, as the f-string of line 174 formats it
RECURSIVE ToStr(_)
ToStr(n) ==
    IF n < 10 THEN <<Digits[n + 1]>>
    ELSE ToStr(n \div 10) \o <<Digits[(n % 10) + 1]>>

\* os.path.splitext on a name without directory separators: split at the last
\* dot, unless only dots precede it
SplitAtLastDot(p) ==
    LET dots == { k \in 1..Len(p) : p[k] = "." }
    IN  IF dots = {} THEN <<p, <<>>>>
        ELSE LET d == CHOOSE k \in dots : \A j \in dots : j <= k
             IN  IF \E k \in 1..(d - 1) : p[k] # "."
                 THEN <<SubSeq(p, 1, d - 1), SubSeq(p, d, Len(p))>>
                 ELSE <<p, <<>>>>

\* (the name is evaluated once, before it is split)
splitext(p) == CHOOSE parts \in { SplitAtLastDot(q) : q \in {p} } : TRUE

\* A normalizer that removes one extension only.
clean_filename_once(filename) == splitext(filename)[1]

RECURSIVE clean_filename(_)
clean_filename(filename) ==
    CHOOSE name \in
        { IF parts[2] # <<>> THEN clean_filename(parts[1]) ELSE parts[1] :
            parts \in {splitext(filename)} } : TRUE

(***************************************************************************)
(* The directory: a function from the names of its entries to the entries. *)
(***************************************************************************)
FileEntry(data) == [kind |-> "file", data |-> data]
DirEntry == [kind |-> "dir", data |-> <<>>]
EmptyFs == [n \in {} |-> DirEntry]

Put(fsys, name, entry) ==
    [n \in (DOMAIN fsys) \cup {name} |-> IF n = name THEN entry ELSE fsys[n]]
Remove(fsys, name) == [n \in (DOMAIN fsys) \ {name} |-> fsys[n]]

\* Path.exists
Exists(fsys, name) == name \in DOMAIN fsys
\* Path.is_file
IsFile(fsys, name) == name \in DOMAIN fsys /\ fsys[name].kind = "file"

\* The loop of lines 173-176; final_name is the candidate under test.
RECURSIVE CollisionLoop(_, _, _, _, _)
CollisionLoop(fsys, file, clean_name, final_name, counter) ==
    IF Exists(fsys, final_name) /\ final_name # file
    THEN CollisionLoop(fsys, file, clean_name,
                       clean_name \o <<"_">> \o ToStr(counter) \o DotGif,
                       counter + 1)
    ELSE final_name

\* Target resolution that takes the clean name whether or not it is taken.
ResolveNoLoop(fsys, file) == clean_filename(file) \o DotGif

\* Target resolution whose loop does not let the file keep its own name.
RECURSIVE CollisionLoopNoSelf(_, _, _, _)
CollisionLoopNoSelf(fsys, clean_name, final_name, counter) ==
    IF Exists(fsys, final_name)
    THEN CollisionLoopNoSelf(fsys, clean_name,
                             clean_name \o <<"_">> \o ToStr(counter) \o DotGif,
                             counter + 1)
    ELSE final_name
ResolveNoSelf(fsys, file) ==
    CollisionLoopNoSelf(fsys, clean_filename(file), clean_filename(file) \o DotGif, 1)

\* Target resolution that tries the suffix 1 and nothing after it.
ResolveOneSuffix(fsys, file) ==
    LET clean_name == clean_filename(file)
    IN  IF Exists(fsys, clean_name \o DotGif) /\ clean_name \o DotGif # file
        THEN clean_name \o <<"_", "1">> \o DotGif
        ELSE clean_name \o DotGif

\* Lines 165-176: the clean name, then the first candidate that is free or is
\* the file itself.
ResolveTarget(fsys, file) ==
    CHOOSE final_name \in
        { CollisionLoop(fsys, file, clean_name, clean_name \o DotGif, 1) :
            clean_name \in {clean_filename(file)} } : TRUE

(***************************************************************************)
(* The directories a run starts from.                                      *)
(***************************************************************************)
N_a_mp4 == <<"a", ".", "m", "p", "4">>
N_a_gif == <<"a", ".", "g", "i", "f">>
N_a_1_gif == <<"a", "_", "1", ".", "g", "i", "f">>
N_b_mp4_gif == <<"b", ".", "m", "p", "4", ".", "g", "i", "f">>
N_c_webm == <<"c", ".", "w", "e", "b", "m">>
N_a_gif_tmp_gif == N_a_gif \o TmpSuffix

Names == { N_a_mp4, N_a_gif, N_a_1_gif, N_b_mp4_gif, N_c_webm, N_a_gif_tmp_gif }

F_GIF == B_GIF89a \o <<0>>
F_MP4 == <<0, 0, 0, 24>> \o B_ftyp \o <<105, 115, 111, 109>>
F_PNG == B_PNGSIG \o <<0>>
F_HTML == B_html \o <<62>>
F_ERR == B_ThisContent
F_TXT == B_hash \o <<120>>
F_UNK == <<0, 1, 2>>

\* An ffmpeg whose output is not a GIF.
FfmpegWritesPng == F_PNG

\* what ffmpeg writes when it succeeds, and what a failed ffmpeg may leave behind
GifOut == B_GIF89a \o <<1>>
PartialOutputs == { <<>>, B_GIF89a }

\* the entries each name may start as
InitEntries(n) ==
    IF n = N_a_mp4 THEN { FileEntry(F_MP4), FileEntry(F_HTML) }
    ELSE IF n = N_a_gif THEN { FileEntry(F_GIF), FileEntry(F_MP4), DirEntry }
    ELSE IF n = N_a_1_gif THEN { FileEntry(F_GIF), FileEntry(F_ERR) }
    ELSE IF n = N_b_mp4_gif THEN { FileEntry(F_GIF), FileEntry(F_PNG) }
    ELSE IF n = N_c_webm THEN { FileEntry(F_HTML), FileEntry(F_UNK), FileEntry(F_TXT) }
    ELSE { FileEntry(F_GIF), FileEntry(F_HTML) }

\* the largest number of entries of a starting directory, and the number of runs
MaxFiles == 3
MaxRuns == 2
\* the largest number of operations the environment makes fail
MaxFaults == 2

InitDirs ==
    UNION { { f \in [D -> UNION { InitEntries(n) : n \in D }] :
                \A n \in D : f[n] \in InitEntries(n) } :
            D \in { E \in SUBSET Names : Cardinality(E) <= MaxFiles } }

Range(seq) == { seq[k] : k \in 1..Len(seq) }

\* the orders in which iterdir may list the names of S
Listings(S) ==
    { l \in [1..Cardinality(S) -> S] : \A j, k \in 1..Cardinality(S) : l[j] = l[k] => j = k }

Convertible == { "mp4", "webm", "avi", "mov", "png", "jpeg", "webp", "apng" }

NoName == <<>>
NoCur ==
    [file |-> NoName, file_type |-> "", final_name |-> NoName,
     temp_output |-> NoName, actual_output |-> NoName, result |-> -1, ret |-> -1]
ZeroStats == [converted |-> 0, renamed |-> 0, skipped |-> 0, failed |-> 0]
ZeroOps == [rename |-> 0, ffmpeg |-> 0, replace |-> 0, unlink |-> 0]
NoAnswers == [html |-> "", text_error |-> ""]
NoFailures == [now |-> {}, prev |-> {}]
NotCleaned == [done |-> FALSE, name |-> <<>>]

VARIABLES
    fs,               \* the directory
    folderExists,     \* folder.exists()
    pc,               \* where process_folder is
    run,              \* which invocation of the script this is
    files, idx,       \* the listing and the position of the for loop in it
    stats,
    html_files, text_error_files, text_files, unknown_files, processed,
    cur,              \* the locals of the iteration under way
    summary,          \* the summary has been printed in this run
    answers,          \* what the operator answered to the two prompts
    fs0,              \* the directory when the run listed it
    pre,              \* the directory when the iteration under way began
    ops,              \* file-system calls and ffmpeg invocations of this run
    faulted,          \* an operation of the per-file pass of this run has failed
    failures,         \* the kinds of operation that failed in the pass of this
                      \* run (now) and in the pass of the run before it (prev)
    nfaults,          \* failures of the environment so far, over all runs
    dData, dResult,   \* the detector on its own: the file and the returned tag
    cName, cResult    \* clean_filename on its own: the name and what it returned

vars ==
    <<fs, folderExists, pc, run, files, idx, stats, html_files, text_error_files,
      text_files, unknown_files, processed, cur, summary, answers, fs0, pre, ops,
      faulted, failures, nfaults, dData, dResult, cName, cResult>>

locals ==
    <<files, idx, stats, html_files, text_error_files, text_files, unknown_files,
      processed, cur, summary, answers, fs0, pre, ops, faulted,
      failures>>

FreshLocals ==
    /\ files = <<>>
    /\ idx = 1
    /\ stats = ZeroStats
    /\ html_files = <<>>
    /\ text_error_files = <<>>
    /\ text_files = <<>>
    /\ unknown_files = <<>>
    /\ processed = <<>>
    /\ cur = NoCur
    /\ summary = FALSE
    /\ answers = NoAnswers
    /\ fs0 = EmptyFs
    /\ pre = EmptyFs
    /\ ops = ZeroOps
    /\ faulted = FALSE
    /\ failures = NoFailures

Init ==
    /\ folderExists \in BOOLEAN
    /\ fs \in (IF folderExists THEN InitDirs ELSE { EmptyFs })
    /\ pc = "start"
    /\ run = 1
    /\ FreshLocals
    /\ nfaults = 0
    /\ dData = <<>>
    /\ dResult = "idle"
    /\ cName = <<>>
    /\ cResult = NotCleaned

\* the operation that is under way at each point of the loop body
FaultKind ==
    IF pc = "loop" THEN "detect"
    ELSE IF pc = "commit" THEN (IF cur.file_type = "gif" THEN "rename" ELSE "ffmpeg")
    ELSE IF pc = "ran" THEN "replace"
    ELSE "unlink"

\* the environment makes the operation under way fail
Fault ==
    /\ nfaults < MaxFaults
    /\ nfaults' = nfaults + 1
    /\ faulted' = TRUE
    /\ failures' = [failures EXCEPT !.now = @ \cup {FaultKind}]

(***************************************************************************)
(* process_folder, lines 109-131: the folder test, the listing, the early  *)
(* return on an empty listing, and the initial values of the locals.       *)
(***************************************************************************)
Start ==
    /\ pc = "start"
    /\ UNCHANGED <<fs, folderExists, run, dData, dResult, cName, cResult, nfaults>>
    /\ \/ /\ ~folderExists
          /\ pc' = "done"
          /\ UNCHANGED locals
       \/ /\ folderExists
          /\ { n \in DOMAIN fs : IsFile(fs, n) } = {}
          /\ pc' = "done"
          /\ UNCHANGED locals
       \/ /\ folderExists
          /\ { n \in DOMAIN fs : IsFile(fs, n) } # {}
          /\ files' \in Listings({ n \in DOMAIN fs : IsFile(fs, n) })
          /\ idx' = 1
          /\ stats' = ZeroStats
          /\ html_files' = <<>>
          /\ text_error_files' = <<>>
          /\ text_files' = <<>>
          /\ unknown_files' = <<>>
          /\ processed' = <<>>
          /\ fs0' = fs
          /\ pc' = "loop"
          /\ UNCHANGED <<cur, summary, answers, pre, ops, faulted, failures>>

\* what open and read give for a name: the bytes of the file, if it is one
FileData(fsys, name) == IF IsFile(fsys, name) THEN fsys[name].data ELSE <<>>

\* A detection error that is passed over without being counted.
SkipUncounted(st) == st

\* Lines 136-138: a file the detector could not read counts as skipped.
SkipUndetected(st) == [st EXCEPT !.skipped = @ + 1]

\* A continue branch that forgets the file.
BucketNothing(bucket, file) == bucket

\* Lines 142, 148, 154, 160: the file goes to the end of the list of its category.
Bucket(bucket, file) == Append(bucket, file)

(***************************************************************************)
(* Lines 133-176 for the file at idx: detection, the five continue         *)
(* branches, and otherwise the clean name and the collision loop.          *)
(***************************************************************************)
ClassifyStep ==
    /\ pc = "loop"
    /\ idx <= Len(files)
    /\ \E readable \in BOOLEAN, file \in {files[idx]} :
         \E file_type \in {detect_file_type(FileData(fs, file), readable)} :
             LET skip == [stats EXCEPT !.skipped = @ + 1]
             IN
             /\ readable => IsFile(fs, file)
             /\ pre' = fs
             /\ IF readable \/ ~IsFile(fs, file)
                THEN UNCHANGED <<faulted, failures, nfaults>>
                ELSE Fault
             /\ IF file_type = "None"
                THEN /\ stats' = SkipUndetected(stats) /\ idx' = idx + 1
                     /\ UNCHANGED <<pc, cur, html_files, text_error_files,
                                    text_files, unknown_files>>
                ELSE IF file_type = "html"
                THEN /\ html_files' = Bucket(html_files, file)
                     /\ stats' = skip /\ idx' = idx + 1
                     /\ UNCHANGED <<pc, cur, text_error_files, text_files, unknown_files>>
                ELSE IF file_type = "text_error"
                THEN /\ text_error_files' = Bucket(text_error_files, file)
                     /\ stats' = skip /\ idx' = idx + 1
                     /\ UNCHANGED <<pc, cur, html_files, text_files, unknown_files>>
                ELSE IF file_type = "text_file"
                THEN /\ text_files' = Bucket(text_files, file)
                     /\ stats' = skip /\ idx' = idx + 1
                     /\ UNCHANGED <<pc, cur, html_files, text_error_files, unknown_files>>
                ELSE IF file_type = "unknown"
                THEN /\ unknown_files' = Bucket(unknown_files, file)
                     /\ stats' = skip /\ idx' = idx + 1
                     /\ UNCHANGED <<pc, cur, html_files, text_error_files, text_files>>
                ELSE /\ cur' = [NoCur EXCEPT !.file = file,
                                             !.file_type = file_type,
                                             !.final_name = ResolveTarget(fs, file)]
                     /\ pc' = "commit"
                     /\ UNCHANGED <<stats, idx, html_files, text_error_files,
                                    text_files, unknown_files>>
    /\ UNCHANGED <<fs, folderExists, run, files, processed, summary, answers, fs0,
                   ops, dData, dResult, cName, cResult>>

\* the end of an iteration that went past the continue branches: line 224
EndIteration ==
    /\ processed' = Append(processed, cur.final_name)
    /\ idx' = idx + 1
    /\ cur' = NoCur
    /\ pc' = "loop"

\* A failed rename whose exception is not caught: the script ends there.
RenameRaises ==
    /\ pc' = "done"
    /\ UNCHANGED <<stats, processed, idx, cur>>

\* Lines 186-188: a rename that raised is counted as failed and the loop goes on.
RenameFailed ==
    /\ stats' = [stats EXCEPT !.failed = @ + 1]
    /\ EndIteration

\* A rename that leaves the source in place.
RenameCopies(fsys, src, dst) == Put(fsys, dst, fsys[src])

\* Path.rename: the entry moves to the target, replacing a file that is there
RenameEntry(fsys, src, dst) == Put(Remove(fsys, src), dst, fsys[src])
CanRename(fsys, src, dst) ==
    Exists(fsys, src) /\ (Exists(fsys, dst) => fsys[dst].kind = "file")

(***************************************************************************)
(* Lines 179-191: a file that is a GIF is renamed when its name is not the *)
(* final name.                                                             *)
(***************************************************************************)
CommitGif ==
    /\ pc = "commit"
    /\ cur.file_type = "gif"
    /\ \/ /\ cur.file # cur.final_name
          /\ CanRename(fs, cur.file, cur.final_name)
          /\ fs' = RenameEntry(fs, cur.file, cur.final_name)
          /\ stats' = [stats EXCEPT !.renamed = @ + 1]
          /\ ops' = [ops EXCEPT !.rename = @ + 1]
          /\ EndIteration
          /\ UNCHANGED <<faulted, failures, nfaults>>
       \/ /\ cur.file # cur.final_name
          /\ Fault
          /\ ops' = [ops EXCEPT !.rename = @ + 1]
          /\ RenameFailed
          /\ UNCHANGED fs
       \/ /\ cur.file = cur.final_name
          /\ stats' = [stats EXCEPT !.skipped = @ + 1]
          /\ EndIteration
          /\ UNCHANGED <<fs, ops, faulted, failures, nfaults>>
    /\ UNCHANGED <<folderExists, run, files, html_files, text_error_files, text_files,
                   unknown_files, summary, answers, fs0, pre, dData, dResult, cName, cResult>>

\* os.system's status for a command that exited with 1
ExitFailure == 256

\* the paths of convert_to_gif, lines 88-93
TempOutput(input_path, output_path) ==
    IF input_path = output_path THEN output_path \o TmpSuffix ELSE NoName

\* A conversion that always writes to the output path.
ActualOutputNoTemp(input_path, output_path) == output_path

ActualOutput(input_path, output_path) ==
    IF TempOutput(input_path, output_path) # NoName
    THEN TempOutput(input_path, output_path)
    ELSE output_path

\* ffmpeg can write its output unless a directory is in the way
Writable(fsys, name) == Exists(fsys, name) => fsys[name].kind = "file"

(***************************************************************************)
(* convert_to_gif, lines 88-97: the choice of the output path and the run  *)
(* of ffmpeg, which ends with status 0 and the GIF written, or with a      *)
(* nonzero status and nothing or a partial file written.                   *)
(***************************************************************************)
RunFfmpeg ==
    /\ pc = "commit"
    /\ cur.file_type \in Convertible
    /\ LET temp_output == TempOutput(cur.file, cur.final_name)
           actual_output == ActualOutput(cur.file, cur.final_name)
       IN  /\ \/ /\ IsFile(fs, cur.file)
                 /\ Writable(fs, actual_output)
                 /\ fs' = Put(fs, actual_output, FileEntry(GifOut))
                 /\ cur' = [cur EXCEPT !.temp_output = temp_output,
                                       !.actual_output = actual_output,
                                       !.result = 0]
                 /\ UNCHANGED <<faulted, failures, nfaults>>
              \/ /\ UNCHANGED fs
                 /\ cur' = [cur EXCEPT !.temp_output = temp_output,
                                       !.actual_output = actual_output,
                                       !.result = ExitFailure]
                 /\ Fault
              \/ /\ Writable(fs, actual_output)
                 /\ \E partial \in PartialOutputs :
                      fs' = Put(fs, actual_output, FileEntry(partial))
                 /\ cur' = [cur EXCEPT !.temp_output = temp_output,
                                       !.actual_output = actual_output,
                                       !.result = ExitFailure]
                 /\ Fault
    /\ ops' = [ops EXCEPT !.ffmpeg = @ + 1]
    /\ pc' = "ran"
    /\ UNCHANGED <<folderExists, run, files, idx, stats, html_files, text_error_files,
                   text_files, unknown_files, processed, summary, answers, fs0, pre,
                   dData, dResult, cName, cResult>>

(***************************************************************************)
(* convert_to_gif, lines 99-107: the temporary file replaces the output    *)
(* when ffmpeg ended with 0; a replace that raises makes the call return 1.*)
(***************************************************************************)
ConvertReturn ==
    /\ pc = "ran"
    /\ \/ /\ cur.temp_output # NoName /\ cur.result = 0
          /\ IsFile(fs, cur.temp_output) /\ Writable(fs, cur.final_name)
          /\ fs' = RenameEntry(fs, cur.temp_output, cur.final_name)
          /\ cur' = [cur EXCEPT !.ret = cur.result]
          /\ ops' = [ops EXCEPT !.replace = @ + 1]
          /\ UNCHANGED <<faulted, failures, nfaults>>
       \/ /\ cur.temp_output # NoName /\ cur.result = 0
          /\ cur' = [cur EXCEPT !.ret = 1]
          /\ ops' = [ops EXCEPT !.replace = @ + 1]
          /\ Fault
          /\ UNCHANGED fs
       \/ /\ ~(cur.temp_output # NoName /\ cur.result = 0)
          /\ cur' = [cur EXCEPT !.ret = cur.result]
          /\ UNCHANGED <<fs, ops, faulted, failures, nfaults>>
    /\ pc' = "returned"
    /\ UNCHANGED <<folderExists, run, files, idx, stats, html_files, text_error_files,
                   text_files, unknown_files, processed, summary, answers, fs0, pre,
                   dData, dResult, cName, cResult>>

\* A delete of the original that counts the file as failed when it raises.
UnlinkCountsFailed(st) == [st EXCEPT !.failed = @ + 1]

\* Lines 200-204 and 215-219: a delete that raised is logged, and the file is
\* counted as converted all the same.
UnlinkFailed(st) == [st EXCEPT !.converted = @ + 1]

(***************************************************************************)
(* Lines 196-207 and 212-222: after a conversion that returned 0 the       *)
(* original is deleted when it is not the output; a delete that raises is  *)
(* only logged.                                                            *)
(***************************************************************************)
AfterConvert ==
    /\ pc = "returned"
    /\ \/ /\ cur.ret = 0 /\ cur.file # cur.final_name
          /\ Exists(fs, cur.file)
          /\ fs' = Remove(fs, cur.file)
          /\ stats' = [stats EXCEPT !.converted = @ + 1]
          /\ ops' = [ops EXCEPT !.unlink = @ + 1]
          /\ UNCHANGED <<faulted, failures, nfaults>>
       \/ /\ cur.ret = 0 /\ cur.file # cur.final_name
          /\ stats' = UnlinkFailed(stats)
          /\ ops' = [ops EXCEPT !.unlink = @ + 1]
          /\ Fault
          /\ UNCHANGED fs
       \/ /\ cur.ret = 0 /\ cur.file = cur.final_name
          /\ stats' = [stats EXCEPT !.converted = @ + 1]
          /\ UNCHANGED <<fs, ops, faulted, failures, nfaults>>
       \/ /\ cur.ret # 0
          /\ stats' = [stats EXCEPT !.failed = @ + 1]
          /\ UNCHANGED <<fs, ops, faulted, failures, nfaults>>
    /\ EndIteration
    /\ UNCHANGED <<folderExists, run, files, html_files, text_error_files, text_files,
                   unknown_files, summary, answers, fs0, pre, dData, dResult, cName, cResult>>

\* Lines 226-233: the loop is over and the summary is printed.
Summary ==
    /\ pc = "loop"
    /\ idx > Len(files)
    /\ summary' = TRUE
    /\ pc' = "review_html"
    /\ UNCHANGED <<fs, folderExists, run, files, idx, stats, html_files,
                   text_error_files, text_files, unknown_files, processed, cur,
                   answers, fs0, pre, ops, faulted, failures, dData, dResult,
                   cName, cResult, nfaults>>

\* The delete loops of lines 244-250 and 264-270: every member of the bucket is
\* unlinked, and each unlink may raise; failed is the set of those that raised.
DeleteAll(fsys, bucket, failed) ==
    [n \in (DOMAIN fsys) \ (Range(bucket) \ failed) |-> fsys[n]]

\* A review that deletes the bucket whatever the answer is.
ReviewDeleteAlways(fsys, bucket, answer, failed) == DeleteAll(fsys, bucket, failed)

\* The directory after the prompt of a bucket was answered.
Review(fsys, bucket, answer, failed) ==
    IF answer = "y" THEN DeleteAll(fsys, bucket, failed) ELSE fsys

\* Lines 235-253: the prompt for the HTML bucket.
ReviewHtml ==
    /\ pc = "review_html"
    /\ \/ /\ html_files = <<>>
          /\ UNCHANGED <<fs, answers, ops, faulted, failures, nfaults>>
       \/ /\ html_files # <<>>
          /\ \E answer \in {"y", "n"}, failed \in SUBSET Range(html_files) :
               /\ answer = "n" => failed = {}
               /\ Range(html_files) \ DOMAIN fs \subseteq failed \/ answer = "n"
               /\ fs' = Review(fs, html_files, answer, failed)
               /\ answers' = [answers EXCEPT !.html = answer]
               /\ ops' = [ops EXCEPT !.unlink =
                             @ + (IF answer = "y" THEN Len(html_files) ELSE 0)]
               /\ nfaults + Cardinality(failed \cap DOMAIN fs) <= MaxFaults
               /\ nfaults' = nfaults + Cardinality(failed \cap DOMAIN fs)
               /\ UNCHANGED <<faulted, failures>>
    /\ pc' = "review_err"
    /\ UNCHANGED <<folderExists, run, files, idx, stats, html_files, text_error_files,
                   text_files, unknown_files, processed, cur, summary, fs0, pre,
                   dData, dResult, cName, cResult>>

\* Lines 255-287: the prompt for the bucket of failed downloads; the two other
\* buckets are only printed.
ReviewErr ==
    /\ pc = "review_err"
    /\ \/ /\ text_error_files = <<>>
          /\ UNCHANGED <<fs, answers, ops, faulted, failures, nfaults>>
       \/ /\ text_error_files # <<>>
          /\ \E answer \in {"y", "n"}, failed \in SUBSET Range(text_error_files) :
               /\ answer = "n" => failed = {}
               /\ Range(text_error_files) \ DOMAIN fs \subseteq failed \/ answer = "n"
               /\ fs' = Review(fs, text_error_files, answer, failed)
               /\ answers' = [answers EXCEPT !.text_error = answer]
               /\ ops' = [ops EXCEPT !.unlink =
                             @ + (IF answer = "y" THEN Len(text_error_files) ELSE 0)]
               /\ nfaults + Cardinality(failed \cap DOMAIN fs) <= MaxFaults
               /\ nfaults' = nfaults + Cardinality(failed \cap DOMAIN fs)
               /\ UNCHANGED <<faulted, failures>>
    /\ pc' = "done"
    /\ UNCHANGED <<folderExists, run, files, idx, stats, html_files, text_error_files,
                   text_files, unknown_files, processed, cur, summary, fs0, pre,
                   dData, dResult, cName, cResult>>

\* Lines 289-305: the script is started again on the same folder.
NextRun ==
    /\ pc = "done"
    /\ run < MaxRuns
    /\ run' = run + 1
    /\ pc' = "start"
    /\ files' = <<>>
    /\ idx' = 1
    /\ stats' = ZeroStats
    /\ html_files' = <<>>
    /\ text_error_files' = <<>>
    /\ text_files' = <<>>
    /\ unknown_files' = <<>>
    /\ processed' = <<>>
    /\ cur' = NoCur
    /\ summary' = FALSE
    /\ answers' = NoAnswers
    /\ fs0' = EmptyFs
    /\ pre' = EmptyFs
    /\ ops' = ZeroOps
    /\ faulted' = FALSE
    /\ failures' = [now |-> {}, prev |-> failures.now]
    /\ UNCHANGED <<fs, folderExists, dData, dResult, cName, cResult, nfaults>>

Next ==
    \/ Start
    \/ ClassifyStep
    \/ CommitGif
    \/ RunFfmpeg
    \/ ConvertReturn
    \/ AfterConvert
    \/ Summary
    \/ ReviewHtml
    \/ ReviewErr
    \/ NextRun

Spec == Init /\ [][Next]_vars

\* The script is sequential: it takes its next step whenever it has one (ffmpeg
\* ends and the operator answers the prompts).
\* Liveness is checked on the runs that start from the smaller directories.
MaxLiveFiles == 2
LiveInit == Init /\ Cardinality(DOMAIN fs) <= MaxLiveFiles
FairSpec == LiveInit /\ [][Next]_vars /\ WF_vars(Next)

(***************************************************************************)
(* The detector on its own: detect_file_type is applied once to a file     *)
(* drawn from DetectInputs, which the open either reads or fails to read.  *)
(***************************************************************************)
DetectInit ==
    /\ dData \in DetectInputs
    /\ dResult = "pending"
    /\ cName = <<>>
    /\ cResult = NotCleaned
    /\ folderExists = FALSE
    /\ fs = EmptyFs
    /\ pc = "detector"
    /\ run = 1
    /\ FreshLocals
    /\ nfaults = 0

DetectStep ==
    /\ pc = "detector"
    /\ dResult = "pending"
    /\ \E readable \in BOOLEAN : dResult' = detect_file_type(dData, readable)
    /\ UNCHANGED <<fs, folderExists, pc, run, locals, nfaults, dData, cName, cResult>>

DetectNext == DetectStep

SpecDetect == DetectInit /\ [][DetectNext]_vars

\* the detector returned a tag for dData (the file was read)
Detected == dResult \notin {"pending", "None"}

dHeader == Read(dData, HeaderSize)
dChunk == Read(dData, ChunkSize)
dContent == Read(dData, ContentSize)

\* Rules 1-11 of the detection chain in the documented order, as the code tests them.
RuleHolds(r) ==
    CASE r = 1 -> IsGif(dHeader)
      [] r = 2 -> IsHtml(dHeader)
      [] r = 3 -> IsTextError(dHeader)
      [] r = 4 -> IsTextFile(dHeader)
      [] r = 5 -> IsMp4(dHeader)
      [] r = 6 -> IsWebm(dHeader)
      [] r = 7 -> IsAvi(dHeader)
      [] r = 8 -> IsMov(dChunk)
      [] r = 9 -> IsPng(dHeader)
      [] r = 10 -> IsJpeg(dHeader)
      [] r = 11 -> IsWebp(dHeader)

RuleTags ==
    << {"gif"}, {"html"}, {"text_error"}, {"text_file"}, {"mp4"}, {"webm"}, {"avi"},
       {"mov"}, {"png", "apng"}, {"jpeg"}, {"webp"} >>

Matching == { r \in 1..11 : RuleHolds(r) }
FirstMatching == CHOOSE r \in Matching : \A q \in Matching : r <= q

(***************************************************************************)
(* C8 as stated: a file with the full PNG signature that matches none of   *)
(* rules 1-8 is detected as png when its first 1024 bytes hold no acTL     *)
(* marker and as apng when they hold one.                                  *)
(***************************************************************************)
C8_PngOrApng ==
    (Detected /\ IsPng(dHeader) /\ \A r \in 1..8 : ~RuleHolds(r))
        => dResult = (IF Contains(dContent, B_acTL) THEN "apng" ELSE "png")

(***************************************************************************)
(* C9: when two or more of the rules match a readable file, the detector   *)
(* returns the tag of the earliest of them in the documented order; a file *)
(* that starts with GIF89a or GIF87a is a gif whatever follows.            *)
(***************************************************************************)
C9_FirstMatchWins ==
    Detected =>
        /\ Cardinality(Matching) >= 2 => dResult \in RuleTags[FirstMatching]
        /\ StartsWith(dData, B_GIF89a) => dResult = "gif"
        /\ (IsMp4(dHeader) /\ \A r \in 1..4 : ~RuleHolds(r)) => dResult = "mp4"

\* a file with ftyp at bytes 4-8 and moov or mdat in the second read came out as mp4
C9_Witness ==
    /\ dResult = "mp4"
    /\ IsMp4(dHeader)
    /\ IsMov(dChunk)
    /\ Cardinality(Matching) >= 2

(***************************************************************************)
(* C10 as stated: a readable file that matches exactly one of the rules    *)
(* (for the PNG rule: without an acTL marker) gets that rule's tag, and a  *)
(* readable file that matches none of the rules, the empty file included,  *)
(* gets unknown.                                                           *)
(***************************************************************************)
C10_SingleSignature ==
    Detected =>
        /\ Matching = {} => dResult = "unknown"
        /\ \A r \in 1..11 :
             (Matching = {r} /\ (r = 9 => ~Contains(dContent, B_acTL)))
                 => (dResult \in RuleTags[r] /\ dResult # "apng")

\* a file that matches none of the rules and did not come out as unknown: it
\* starts with the four bytes 89 50 4E 47, not with the full PNG signature, and
\* holds acTL in its first 1024 bytes
C10_PngPrefixWithActl ==
    /\ Detected
    /\ Matching = {}
    /\ StartsWith(dData, B_PNG4)
    /\ dResult = "apng"

\* What holds of C10: outside the files that pass the test of lines 58-62, a file
\* matching one rule gets its tag and a file matching none gets unknown.
C10_OutsideApngTest ==
    Detected =>
        /\ (Matching = {} /\ ~IsApng(dHeader, dContent)) => dResult = "unknown"
        /\ \A r \in 1..11 :
             (Matching = {r} /\ ~IsApng(dHeader, dContent))
                 => (dResult \in RuleTags[r] /\ dResult # "apng")

(***************************************************************************)
(* Properties of process_folder and convert_to_gif.                        *)
(***************************************************************************)
N_b_gif == <<"b", ".", "g", "i", "f">>
N_a_2_gif == <<"a", "_", "2", ".", "g", "i", "f">>

\* an iteration is between the resolution of its target and its end
InIteration == pc \in {"commit", "ran", "returned"}
PassOver == pc \in {"review_html", "review_err", "done"} /\ summary

Total(st) == st.converted + st.renamed + st.skipped + st.failed

(***************************************************************************)
(* C1: when the rename or the conversion of a file is about to be          *)
(* committed, its target is not the name of an existing entry, unless it   *)
(* is the name of the file itself; the replace that ends a same-path       *)
(* conversion targets the file itself.                                     *)
(***************************************************************************)
C1_TargetFree ==
    /\ pc = "commit" => (~Exists(fs, cur.final_name) \/ cur.final_name = cur.file)
    /\ (pc = "ran" /\ cur.temp_output # NoName) => cur.final_name = cur.file

\* a target that had to step over a taken name, and is free
C1_Witness ==
    /\ pc = "commit"
    /\ Exists(fs, clean_filename(cur.file) \o DotGif)
    /\ cur.final_name # cur.file
    /\ ~Exists(fs, cur.final_name)

(***************************************************************************)
(* C2: every iteration of the loop adds 1 to exactly one of the four       *)
(* counters, no counter ever goes down within a run, and once the pass is  *)
(* over the four counters add up to the number of listed files.            *)
(***************************************************************************)
C2_OneDisposition ==
    /\ [](pc = "loop" => Total(stats) = idx - 1)
    /\ [](InIteration => Total(stats) = idx - 1)
    /\ [](PassOver => Total(stats) = Len(files))
    /\ [][ (run' = run) =>
             /\ stats'.converted >= stats.converted
             /\ stats'.renamed >= stats.renamed
             /\ stats'.skipped >= stats.skipped
             /\ stats'.failed >= stats.failed
             /\ Total(stats') = Total(stats) + (IF idx' = idx + 1 THEN 1 ELSE 0) ]_vars

\* a pass over three files that ended with one file in each of three counters
C2_Witness ==
    /\ PassOver
    /\ Len(files) = 3
    /\ stats.converted = 1
    /\ stats.skipped = 1
    /\ stats.failed = 1

(***************************************************************************)
(* C3 as stated: a run on an existing folder always gets to the summary,   *)
(* also when the folder holds no regular file.                             *)
(***************************************************************************)
C3_AlwaysSummary == (folderExists /\ pc = "done") => summary

(***************************************************************************)
(* C3 as amended: once the listing is not empty the run goes through every *)
(* listed file and gets to the summary, whatever failed on the way; a run  *)
(* that ends without the summary is a run on a missing folder or on a      *)
(* folder without regular files.                                           *)
(***************************************************************************)
C3_SummaryWhenFiles ==
    /\ [](pc = "loop" => <>(summary /\ idx = Len(files) + 1))
    /\ []((pc = "done" /\ ~summary) => files = <<>>)

\* the summary of a pass in which two operations failed
C3_Witness ==
    /\ PassOver
    /\ nfaults = MaxFaults
    /\ stats.failed >= 1
    /\ idx = Len(files) + 1

(***************************************************************************)
(* C4: in a conversion whose input is its output, ffmpeg changes nothing   *)
(* but the temporary path, the original is replaced only by the step that  *)
(* follows an exit status of 0, and after a nonzero status the original is *)
(* as it was, the temporary path is left as ffmpeg left it, and the call   *)
(* returns a nonzero value.                                                *)
(***************************************************************************)
SamePath == cur.file = cur.final_name /\ cur.file_type \in Convertible

SameExcept(f, g, name) ==
    /\ (DOMAIN f) \ {name} = (DOMAIN g) \ {name}
    /\ \A n \in (DOMAIN f) \ {name} : f[n] = g[n]

C4_SamePathSafe ==
    /\ [][ (pc = "commit" /\ SamePath)
             => SameExcept(fs, fs', cur.file \o TmpSuffix) ]_vars
    /\ []((pc = "ran" /\ SamePath)
             => (IsFile(fs, cur.file) /\ fs[cur.file] = pre[cur.file]))
    /\ [][ (pc = "ran" /\ SamePath /\ cur.result # 0)
             => (fs' = fs /\ cur'.ret # 0) ]_vars
    /\ []((pc = "returned" /\ SamePath /\ cur.result # 0)
             => (IsFile(fs, cur.file) /\ fs[cur.file] = pre[cur.file] /\ cur.ret # 0))

\* a same-path conversion that failed and left a partial temporary file
C4_Witness ==
    /\ pc = "returned"
    /\ SamePath
    /\ cur.result # 0
    /\ cur.ret # 0
    /\ IsFile(fs, cur.temp_output)
    /\ fs[cur.file] = pre[cur.file]

(***************************************************************************)
(* C5: a run on a directory in which every entry is a file of GIF content  *)
(* named <base>.gif, the base without a dot, renames, converts and deletes *)
(* nothing, leaves the directory as it was and counts every file as        *)
(* skipped; so does the run that follows it.                               *)
(***************************************************************************)
NormalizedName(name) ==
    /\ Len(name) > Len(DotGif)
    /\ SubSeq(name, Len(name) - Len(DotGif) + 1, Len(name)) = DotGif
    /\ \A k \in 1..(Len(name) - Len(DotGif)) : name[k] # "."

NormalizedDir(fsys) ==
    /\ DOMAIN fsys # {}
    /\ \A n \in DOMAIN fsys :
         /\ fsys[n].kind = "file"
         /\ detect_bytes(fsys[n].data) = "gif"
         /\ NormalizedName(n)

C5_Idempotent ==
    (pc # "start" /\ NormalizedDir(fs0)) =>
        /\ fs = fs0
        /\ ops = ZeroOps
        /\ stats.converted = 0 /\ stats.renamed = 0 /\ stats.failed = 0
        /\ PassOver => stats.skipped = Len(files)
        /\ Len(files) = Cardinality(DOMAIN fs0)

\* the second run on a normalized directory of two files is over
C5_Witness ==
    /\ run = 2
    /\ pc = "done"
    /\ summary
    /\ NormalizedDir(fs0)
    /\ Len(files) = 2
    /\ stats.skipped = 2

(***************************************************************************)
(* C6: on the directory of a.mp4 (MP4), b.mp4.gif (GIF) and c.webm (HTML), *)
(* in any listing order, a pass in which no operation failed ends with     *)
(* a.mp4 gone and a.gif holding the converted GIF, b.mp4.gif renamed to    *)
(* b.gif, c.webm alone in the html bucket, and the counters at converted   *)
(* 1, renamed 1, skipped 1, failed 0; c.webm is gone only after the        *)
(* operator answered yes.                                                  *)
(***************************************************************************)
ScenarioDir ==
    [n \in {N_a_mp4, N_b_mp4_gif, N_c_webm} |->
        IF n = N_a_mp4 THEN FileEntry(F_MP4)
        ELSE IF n = N_b_mp4_gif THEN FileEntry(F_GIF)
        ELSE FileEntry(F_HTML)]

C6_Scenario ==
    (run = 1 /\ fs0 = ScenarioDir /\ PassOver /\ ~faulted) =>
        /\ stats = [converted |-> 1, renamed |-> 1, skipped |-> 1, failed |-> 0]
        /\ ~Exists(fs, N_a_mp4)
        /\ IsFile(fs, N_a_gif) /\ fs[N_a_gif].data = GifOut
        /\ ~Exists(fs, N_b_mp4_gif)
        /\ IsFile(fs, N_b_gif) /\ fs[N_b_gif].data = F_GIF
        /\ html_files = <<N_c_webm>>
        /\ text_error_files = <<>> /\ text_files = <<>> /\ unknown_files = <<>>
        /\ DOMAIN fs \subseteq {N_a_gif, N_b_gif, N_c_webm}
        /\ ~Exists(fs, N_c_webm) => answers.html = "y"
        /\ (pc = "review_html" \/ answers.html = "n") => fs[N_c_webm] = FileEntry(F_HTML)

\* the scenario ended with the operator having had c.webm deleted
C6_Witness ==
    /\ run = 1
    /\ fs0 = ScenarioDir
    /\ pc = "done"
    /\ ~faulted
    /\ answers.html = "y"
    /\ DOMAIN fs = {N_a_gif, N_b_gif}
    /\ stats.converted = 1

(***************************************************************************)
(* C7: the resolved target is the first name of the sequence base.gif,     *)
(* base_1.gif, base_2.gif, ... that is free or is the file itself; with    *)
(* a.gif and a_1.gif taken by other entries and a_2.gif free, the target   *)
(* for base a is a_2.gif.                                                  *)
(***************************************************************************)
Candidate(base, k) ==
    IF k = 0 THEN base \o DotGif ELSE base \o <<"_">> \o ToStr(k) \o DotGif

FreeFor(fsys, file, name) == ~Exists(fsys, name) \/ name = file

C7_FirstFree ==
    pc = "commit" =>
        LET base == clean_filename(cur.file)
        IN  /\ \E k \in 0..Cardinality(DOMAIN fs) :
                 /\ cur.final_name = Candidate(base, k)
                 /\ FreeFor(fs, cur.file, Candidate(base, k))
                 /\ \A j \in 0..(k - 1) : ~FreeFor(fs, cur.file, Candidate(base, j))
            /\ ( /\ base = <<"a">>
                 /\ Exists(fs, N_a_gif) /\ Exists(fs, N_a_1_gif)
                 /\ ~Exists(fs, N_a_2_gif)
                 /\ cur.file \notin {N_a_gif, N_a_1_gif} )
                   => cur.final_name = N_a_2_gif

\* a.gif and a_1.gif are taken and the target of another file of base a is a_2.gif
C7_Witness ==
    /\ pc = "commit"
    /\ Exists(fs, N_a_gif) /\ Exists(fs, N_a_1_gif)
    /\ cur.file \notin {N_a_gif, N_a_1_gif}
    /\ cur.final_name = N_a_2_gif

(***************************************************************************)
(* C11: the step of the loop for a file that was read and detected as      *)
(* html, text_error, text_file or unknown appends the file to the list of  *)
(* that category and to no other, adds 1 to skipped and to no other        *)
(* counter, leaves every directory entry as it was, makes no file-system   *)
(* call, computes no target for it and goes on to the next file.           *)
(***************************************************************************)
BucketTypes == { "html", "text_error", "text_file", "unknown" }

Buckets ==
    [html |-> html_files, text_error |-> text_error_files,
     text_file |-> text_files, unknown |-> unknown_files]

\* the loop is at a file that is there; the step that follows reads it when no
\* failure is added
AtFile == pc = "loop" /\ idx <= Len(files) /\ IsFile(fs, files[idx])

C11_BucketFrame ==
    [][ ( /\ AtFile
          /\ nfaults' = nfaults
          /\ detect_bytes(fs[files[idx]].data) \in BucketTypes )
        => /\ Buckets' = [Buckets EXCEPT ![detect_bytes(fs[files[idx]].data)] =
                                             Append(@, files[idx])]
           /\ stats' = [stats EXCEPT !.skipped = @ + 1]
           /\ fs' = fs
           /\ ops' = ops
           /\ cur = NoCur /\ cur' = NoCur
           /\ pc' = "loop" /\ idx' = idx + 1 ]_vars

\* the first listed file went to the html list, and nothing else happened
C11_Witness ==
    /\ pc = "loop"
    /\ idx = 2
    /\ html_files = <<files[1]>>
    /\ text_error_files = <<>> /\ text_files = <<>> /\ unknown_files = <<>>
    /\ stats = [ZeroStats EXCEPT !.skipped = 1]
    /\ fs = fs0

(***************************************************************************)
(* C12: a step of the review removes an entry only if it is in the list    *)
(* under review (html, then text_error) and the operator answered y to     *)
(* that list's prompt; it changes no entry that stays; after the answer n  *)
(* the directory is as it was; the members of text_files and unknown_files *)
(* are never removed by it, in any run.                                    *)
(***************************************************************************)
InReview == pc \in {"review_html", "review_err"}

C12_ReviewDeletes ==
    [][ InReview =>
          LET bucket == IF pc = "review_html" THEN html_files ELSE text_error_files
              answer == IF pc = "review_html" THEN answers'.html
                        ELSE answers'.text_error
          IN  /\ DOMAIN fs' \subseteq DOMAIN fs
              /\ \A n \in DOMAIN fs' : fs'[n] = fs[n]
              /\ \A n \in (DOMAIN fs) \ (DOMAIN fs') :
                     n \in Range(bucket) /\ answer = "y"
              /\ answer = "n" => fs' = fs
              /\ \A n \in Range(text_files) \cup Range(unknown_files) :
                     n \in DOMAIN fs => n \in DOMAIN fs' ]_vars

\* the html file was deleted on y, the failed download was kept on n, and the text
\* file is still there
C12_Witness ==
    /\ pc = "done"
    /\ answers = [html |-> "y", text_error |-> "n"]
    /\ Len(html_files) = 1 /\ ~Exists(fs, html_files[1])
    /\ Len(text_error_files) = 1 /\ Exists(fs, text_error_files[1])
    /\ Len(text_files) = 1 /\ Exists(fs, text_files[1])

(***************************************************************************)
(* clean_filename on its own: it is applied once to a name drawn from      *)
(* CleanInputs, the names of up to MaxNameLen characters over a, b and the *)
(* dot, and the two names of the documented examples.                      *)
(***************************************************************************)
MaxNameLen == 4
NameChars == { "a", "b", "." }
N_clip_mp4_tmp == <<"c", "l", "i", "p", ".", "m", "p", "4", ".", "t", "m", "p">>
N_clip == <<"c", "l", "i", "p">>
N_noext == <<"n", "o", "e", "x", "t">>

CleanInputs ==
    UNION { [1..n -> NameChars] : n \in 0..MaxNameLen } \cup { N_clip_mp4_tmp, N_noext }

CleanInit ==
    /\ cName \in CleanInputs
    /\ cResult = NotCleaned
    /\ dData = <<>>
    /\ dResult = "idle"
    /\ folderExists = FALSE
    /\ fs = EmptyFs
    /\ pc = "cleaner"
    /\ run = 1
    /\ FreshLocals
    /\ nfaults = 0

CleanStep ==
    /\ pc = "cleaner"
    /\ ~cResult.done
    /\ cResult' = [done |-> TRUE, name |-> clean_filename(cName)]
    /\ UNCHANGED <<fs, folderExists, pc, run, locals, nfaults, dData, dResult, cName>>

CleanNext == CleanStep

SpecClean == CleanInit /\ [][CleanNext]_vars

(***************************************************************************)
(* C13: the name clean_filename returns has no extension that splitext     *)
(* would remove, so cleaning it again returns it unchanged; it is what is  *)
(* left of the name in front of the removed extensions; clip.mp4.tmp       *)
(* gives clip and noext gives noext.                                       *)
(***************************************************************************)
C13_FixedPoint ==
    cResult.done =>
        /\ splitext(cResult.name)[2] = <<>>
        /\ clean_filename(cResult.name) = cResult.name
        /\ Len(cResult.name) <= Len(cName)
        /\ cResult.name = SubSeq(cName, 1, Len(cResult.name))
        /\ cName = N_clip_mp4_tmp => cResult.name = N_clip
        /\ cName = N_noext => cResult.name = N_noext

\* two extensions were removed from clip.mp4.tmp
C13_Witness ==
    /\ cResult.done
    /\ cName = N_clip_mp4_tmp
    /\ cResult.name = N_clip

(***************************************************************************)
(* C14: the step of the loop for a file that could not be opened or read   *)
(* (the read failed, or the file is no longer there) adds 1 to skipped and *)
(* to no other counter, appends the file to no list, makes no file-system  *)
(* call, changes no directory entry, computes no target and goes on to the *)
(* next file.                                                              *)
(***************************************************************************)
C14_UndetectedSkipped ==
    [][ ( /\ pc = "loop" /\ idx <= Len(files)
          /\ (nfaults' = nfaults + 1 \/ ~IsFile(fs, files[idx])) )
        => /\ stats' = [stats EXCEPT !.skipped = @ + 1]
           /\ Buckets' = Buckets
           /\ fs' = fs
           /\ ops' = ops
           /\ cur' = NoCur
           /\ processed' = processed
           /\ pc' = "loop" /\ idx' = idx + 1 ]_vars

\* the first listed file could not be read, and the loop is at the second
C14_Witness ==
    /\ pc = "loop"
    /\ idx = 2
    /\ Len(files) >= 2
    /\ failures.now = {"detect"}
    /\ stats = [ZeroStats EXCEPT !.skipped = 1]
    /\ Buckets = [html |-> <<>>, text_error |-> <<>>, text_file |-> <<>>, unknown |-> <<>>]
    /\ fs = fs0

(***************************************************************************)
(* C15: for a file of a convertible type ffmpeg is run exactly once: the   *)
(* commit step runs it and no later step of the iteration does, and every  *)
(* attempt of the pass has one outcome.  After a conversion that returned  *)
(* 0 the target holds the GIF, converted goes up by 1, and the original is *)
(* deleted when it is not the target; when that delete fails the file is   *)
(* still counted as converted and failed stays.  After a conversion that   *)
(* returned nonzero failed goes up by 1 and the original is still there    *)
(* with the content it had.                                                *)
(***************************************************************************)
Converting == cur.file_type \in Convertible

C15_ConvertOnce ==
    /\ [][ (pc = "commit" /\ Converting)
             => (pc' = "ran" /\ ops'.ffmpeg = ops.ffmpeg + 1) ]_vars
    /\ [][ (pc \in {"ran", "returned"}) => ops'.ffmpeg = ops.ffmpeg ]_vars
    /\ [](pc = "loop" =>
            ops.ffmpeg + ops.rename = stats.converted + stats.renamed + stats.failed)
    /\ []((pc = "returned" /\ cur.ret = 0) =>
            (IsFile(fs, cur.final_name) /\ fs[cur.final_name].data = GifOut))
    /\ [][ (pc = "returned" /\ cur.ret = 0)
             => /\ stats' = [stats EXCEPT !.converted = @ + 1]
                /\ cur.file = cur.final_name => fs' = fs
                /\ cur.file # cur.final_name =>
                     \/ fs' = Remove(fs, cur.file) /\ nfaults' = nfaults
                     \/ fs' = fs /\ nfaults' = nfaults + 1 ]_vars
    /\ [][ (pc = "returned" /\ cur.ret # 0)
             => /\ stats' = [stats EXCEPT !.failed = @ + 1]
                /\ fs' = fs
                /\ IsFile(fs, cur.file) /\ fs[cur.file] = pre[cur.file] ]_vars

\* a.mp4 was converted, its delete failed, and it counts as converted
C15_Witness ==
    /\ pc = "loop"
    /\ failures.now = {"unlink"}
    /\ stats.converted = 1 /\ stats.failed = 0
    /\ ops.ffmpeg = 1
    /\ Len(processed) >= 1
    /\ \E k \in 1..Len(processed) :
         /\ IsFile(fs, processed[k]) /\ fs[processed[k]].data = GifOut
         /\ IsFile(fs, files[idx - 1]) /\ files[idx - 1] # processed[k]
         /\ fs[files[idx - 1]] = fs0[files[idx - 1]]

(***************************************************************************)
(* C16: for a file detected as gif, when the target is the file's own name *)
(* skipped goes up by 1 and the directory and the call counters stay as    *)
(* they are; otherwise either the entry moves to the target and renamed    *)
(* goes up by 1, or the rename fails, the directory stays as it is and     *)
(* failed goes up by 1; ffmpeg is never run for it.                        *)
(***************************************************************************)
Moved(fsys, src, dst) ==
    [n \in ((DOMAIN fsys) \ {src}) \cup {dst} |-> IF n = dst THEN fsys[src] ELSE fsys[n]]

C16_GifBranch ==
    /\ [](pc \in {"ran", "returned"} => cur.file_type # "gif")
    /\ [][ (pc = "commit" /\ cur.file_type = "gif")
             => /\ pc' = "loop"
                /\ ops'.ffmpeg = ops.ffmpeg
                /\ cur.final_name = cur.file =>
                     /\ stats' = [stats EXCEPT !.skipped = @ + 1]
                     /\ fs' = fs /\ ops' = ops
                /\ cur.final_name # cur.file =>
                     \/ /\ fs' = Moved(fs, cur.file, cur.final_name)
                        /\ stats' = [stats EXCEPT !.renamed = @ + 1]
                        /\ nfaults' = nfaults
                     \/ /\ fs' = fs
                        /\ stats' = [stats EXCEPT !.failed = @ + 1]
                        /\ nfaults' = nfaults + 1 ]_vars

\* b.mp4.gif, a GIF, was renamed to b.gif
C16_Witness ==
    /\ pc = "loop"
    /\ idx >= 2
    /\ files[idx - 1] = N_b_mp4_gif
    /\ stats.renamed = 1
    /\ ops = [ZeroOps EXCEPT !.rename = 1]
    /\ ~Exists(fs, N_b_mp4_gif)
    /\ IsFile(fs, N_b_gif) /\ fs[N_b_gif] = fs0[N_b_mp4_gif]
    /\ fs0[N_b_mp4_gif].data = F_GIF

(***************************************************************************)
(* C17 as stated: a readable file that matches none of rules 1-7 is mov    *)
(* whenever moov, mdat, or both ftyp and qt occur within its first 1024    *)
(* bytes.                                                                  *)
(***************************************************************************)
MovMarkers(window) ==
    \/ Contains(window, B_moov)
    \/ Contains(window, B_mdat)
    \/ (Contains(window, B_ftyp) /\ Contains(window, B_qt))

NoneOfRules1to7 == \A r \in 1..7 : ~RuleHolds(r)

C17_MovWithin1024 ==
    (Detected /\ NoneOfRules1to7 /\ MovMarkers(dContent)) => dResult = "mov"

(***************************************************************************)
(* C17 as amended: a readable file that matches none of rules 1-7 is mov   *)
(* exactly when moov, mdat, or both ftyp and qt lie within its first 256   *)
(* bytes; markers that lie or end beyond byte 256 do not make it mov.      *)
(***************************************************************************)
C17_MovWithin256 ==
    (Detected /\ NoneOfRules1to7) =>
        /\ MovMarkers(SubSeq(dData, 1, Min(256, Len(dData)))) <=> dResult = "mov"
        /\ (MovMarkers(dContent) /\ ~MovMarkers(dChunk)) => dResult # "mov"

\* mdat ends exactly at byte 256 of a file without any other signature: mov
C17_Witness ==
    /\ dResult = "mov"
    /\ Len(dData) = ChunkSize
    /\ SubSeq(dData, ChunkSize - 3, ChunkSize) = B_mdat
    /\ ~MovMarkers(dHeader)
    /\ Matching = {8}

\* mdat lies beyond byte 256 and within the first 1024 bytes: not mov
C17_BeyondChunk ==
    /\ Detected
    /\ NoneOfRules1to7
    /\ MovMarkers(dContent)
    /\ ~MovMarkers(dChunk)
    /\ dResult = "unknown"

(***************************************************************************)
(* C18 as stated: during the pass every entry of the listed directory,     *)
(* except the listed files whose turn has come, is still there as it was   *)
(* when the directory was listed; and the path ffmpeg is about to write to *)
(* is not the path of another existing entry.                              *)
(***************************************************************************)
InPass == pc \in {"loop", "commit", "ran", "returned"} /\ files # <<>>

\* the listed files whose turn has come: those before idx, and the one under way
TurnCome ==
    { files[k] : k \in 1..Min(Len(files), IF InIteration THEN idx ELSE idx - 1) }

C18_OthersUntouched ==
    /\ InPass =>
         \A n \in (DOMAIN fs0) \ TurnCome : Exists(fs, n) /\ fs[n] = fs0[n]
    /\ (pc = "commit" /\ Converting) =>
         \/ ~Exists(fs, ActualOutput(cur.file, cur.final_name))
         \/ ActualOutput(cur.file, cur.final_name) = cur.file

\* The same-path conversion of a file has overwritten and then moved away the
\* listed file named <file>.tmp.gif, whose turn had not come.
C18_TempClobbered ==
    /\ pc = "returned"
    /\ cur.file = cur.final_name
    /\ cur.ret = 0
    /\ cur.temp_output \in (DOMAIN fs0) \ TurnCome
    /\ IsFile(fs0, cur.temp_output)
    /\ ~Exists(fs, cur.temp_output)

\* What holds of C18: every entry other than the temporary path of a same-path
\* conversion is left alone until its turn comes, and ffmpeg writes either to that
\* temporary path or to a path that no entry has.
C18_ExceptTempPath ==
    /\ InPass =>
         \A n \in (DOMAIN fs0) \ TurnCome :
             (\A k \in 1..Len(files) : n # files[k] \o TmpSuffix)
                 => (Exists(fs, n) /\ fs[n] = fs0[n])
    /\ (pc = "commit" /\ Converting /\ cur.file # cur.final_name) =>
         ~Exists(fs, ActualOutput(cur.file, cur.final_name))

(***************************************************************************)
(* C19 as stated: in a run that follows a run in which every rename and    *)
(* every conversion (ffmpeg and the replace that ends a same-path          *)
(* conversion) succeeded, nothing is renamed, converted or deleted during  *)
(* the pass, the directory stays as it was listed and every listed file is *)
(* counted as skipped.                                                     *)
(***************************************************************************)
SecondRun == run >= 2 /\ pc # "start"

NoMediaWork ==
    /\ ops.rename = 0 /\ ops.ffmpeg = 0 /\ ops.replace = 0
    /\ stats.converted = 0 /\ stats.renamed = 0 /\ stats.failed = 0
    /\ InPass => (ops.unlink = 0 /\ fs = fs0)
    /\ (DOMAIN fs0) \ (DOMAIN fs) \subseteq Range(html_files) \cup Range(text_error_files)
    /\ PassOver => stats.skipped = Len(files)

C19_ConvergedAfterSuccess ==
    (SecondRun /\ failures.prev \cap {"rename", "ffmpeg", "replace"} = {})
        => NoMediaWork

(***************************************************************************)
(* C19 as amended: in a run that follows a run in whose pass no operation  *)
(* failed (every listed file was read, and every rename, conversion and    *)
(* delete of an original succeeded), nothing is renamed, converted or      *)
(* deleted during the pass, the directory stays as it was listed and every *)
(* listed file is counted as skipped.                                      *)
(***************************************************************************)
C19_ConvergedAfterCleanRun ==
    (SecondRun /\ failures.prev = {}) => NoMediaWork

\* the second run is over; a_1.gif, which the first run produced by a
\* conversion, was skipped with the rest
C19_Witness ==
    /\ run = 2
    /\ PassOver
    /\ failures.prev = {}
    /\ IsFile(fs0, N_a_1_gif) /\ fs0[N_a_1_gif].data = GifOut
    /\ \E k \in 1..Len(files) : files[k] = N_a_1_gif
    /\ stats = [ZeroStats EXCEPT !.skipped = Len(files)]

\* the first run converted a file and could not delete the original, and the
\* second run converts the original again
C19_ConvertedAgain ==
    /\ run = 2
    /\ failures.prev = {"unlink"}
    /\ ops.ffmpeg = 1
    /\ pc = "ran"
=============================================================================
